---- MODULE Spec2Model ----
(***************************************************************************)
(* Model of src/src/gerrit.js: the Message, Changelist, Description,       *)
(* SearchResult and SearchResults classes of the Gerrit monitor.           *)
(*                                                                         *)
(* JavaScript strings are modelled as sequences of one-character strings,  *)
(* so that startsWith, split, parseInt and the attribute regular           *)
(* expression are computed character by character.                         *)
(***************************************************************************)
EXTENDS Integers, Sequences, FiniteSets

VARIABLES
    op,          \* the last operation that ran ("new" after construction)
    msg,         \* a Message object: [json_ |-> [tag, tag_, real_author, date]]
    ignored,     \* outcome of the last Message.shouldBeIgnored()
    cl,          \* a Changelist object: json_ and its memoized fields
    now,         \* the clock read by `new Date().getTime()`, in ms
    user,        \* argument of the last Changelist.getCategory(user)
    category,    \* outcome of the last getCategory: a category or TypeError
    stale,       \* outcome of the last Changelist.isStale()
    text_,       \* Description.text_
    parsed,      \* outcome of the last Description.parse(text_)
    results_,    \* SearchResults.results_: sequence of SearchResult objects
    categories   \* outcome of the last SearchResults.getCategoryMap()

vars == <<op, msg, ignored, cl, now, user, category, stale, text_, parsed,
          results_, categories>>

----------------------------------------------------------------------------
(* JavaScript values *)

\* The value `undefined` of a string-valued JSON field.
Undefined == <<"<undefined>">>

\* The value `null` of a memoized field, and a filled memoized field.
Null == [isNull |-> TRUE]
Some(v) == [isNull |-> FALSE, val |-> v]

\* JavaScript numbers that may be NaN (parseInt results).
NaN == [nan |-> TRUE, v |-> 0]
Num(n) == [nan |-> FALSE, v |-> n]

\* `!s` for a string-or-undefined s.
Falsy(s) == s = Undefined \/ s = <<>>

\* String.prototype.startsWith
StartsWith(s, prefix) ==
    /\ s # Undefined
    /\ Len(s) >= Len(prefix)
    /\ SubSeq(s, 1, Len(prefix)) = prefix

\* All sequences over S of length at most n.
SeqsUpTo(S, n) == UNION {[1..k -> S] : k \in 0..n}

----------------------------------------------------------------------------
(* String literals of the source *)

S_autogenerated == <<"a","u","t","o","g","e","n","e","r","a","t","e","d",":">>
S_gerrit == <<"g","e","r","r","i","t",":">>
S_newPatchSet ==
    S_autogenerated \o S_gerrit \o <<"n","e","w","P","a","t","c","h","S","e","t">>
S_newWipPatchSet ==
    S_autogenerated \o S_gerrit
        \o <<"n","e","w","W","i","p","P","a","t","c","h","S","e","t">>
S_reviewed == <<"r","e","v","i","e","w","e","d">>
S_unreviewed == <<"u","n">> \o S_reviewed

\* Other tags a Gerrit server or a robot attaches to a message.
S_merged == S_autogenerated \o S_gerrit \o <<"m","e","r","g","e","d">>
S_newPatchSetX == S_newPatchSet \o <<"X">>
S_autoNoColon == <<"a","u","t","o","g","e","n","e","r","a","t","e","d">>
S_upperAuto == <<"A","u","t","o","g","e","n","e","r","a","t","e","d",":","c","i">>
S_mailtag == <<"m","a","i","l","M","e","s","s","a","g","e">>
S_prefixed == <<"c","i",":">> \o S_autogenerated

----------------------------------------------------------------------------
(* Message *)

\* Message.shouldBeIgnored: reads the field `tag_` of the wrapped JSON.
shouldBeIgnored(m) ==
    IF Falsy(m.json_.tag_) THEN FALSE
    ELSE IF ~StartsWith(m.json_.tag_, S_autogenerated) THEN FALSE
    ELSE IF m.json_.tag_ = S_newPatchSet THEN FALSE
    ELSE IF m.json_.tag_ = S_newWipPatchSet THEN FALSE
    ELSE TRUE

\* Message.isAuthoredBy
isAuthoredBy(m, account) == m.json_.real_author._account_id = account._account_id

\* Message.getTime: the date string carries nanoseconds; the Date built from it
\* keeps whole milliseconds.  A date is modelled as [ms, half]: `half` is the
\* number of half milliseconds of the sub-millisecond fraction (0 or 1).
getTime(m) == m.json_.date.ms

\* Message.wrap
Message_wrap(json) == [json_ |-> json]

----------------------------------------------------------------------------
(* String.prototype.split('/') and parseInt *)

\* s.split(sep) for a one-character separator: the parts between separators.
RECURSIVE SplitFrom(_, _, _)
SplitFrom(s, sep, cur) ==
    IF s = <<>> THEN <<cur>>
    ELSE IF Head(s) = sep THEN <<cur>> \o SplitFrom(Tail(s), sep, <<>>)
    ELSE SplitFrom(Tail(s), sep, Append(cur, Head(s)))

split(s, sep) == SplitFrom(s, sep, <<>>)

DecimalDigits == <<"0","1","2","3","4","5","6","7","8","9">>
IsDigit(c) == \E i \in 1..Len(DecimalDigits) : DecimalDigits[i] = c
DigitValue(c) == (CHOOSE i \in 1..Len(DecimalDigits) : DecimalDigits[i] = c) - 1
IsWhiteSpace(c) == c \in {" ", "\t"}

RECURSIVE StripLeadingWhiteSpace(_)
StripLeadingWhiteSpace(s) ==
    IF s # <<>> /\ IsWhiteSpace(Head(s)) THEN StripLeadingWhiteSpace(Tail(s)) ELSE s

\* The value of the longest prefix of decimal digits of s, continuing from acc.
RECURSIVE DigitsValue(_, _)
DigitsValue(s, acc) ==
    IF s # <<>> /\ IsDigit(Head(s))
    THEN DigitsValue(Tail(s), 10 * acc + DigitValue(Head(s)))
    ELSE acc

\* parseInt(s) without radix, for inputs that carry no "0x" prefix: leading
\* white space is skipped, a sign is read, then the longest run of digits;
\* NaN when there is no digit.
parseInt(s) ==
    LET t == StripLeadingWhiteSpace(s)
        negative == t # <<>> /\ Head(t) = "-"
        u == IF t # <<>> /\ Head(t) \in {"-", "+"} THEN Tail(t) ELSE t
    IN  IF u = <<>> \/ ~IsDigit(Head(u)) THEN NaN
        ELSE Num(IF negative THEN 0 - DigitsValue(u, 0) ELSE DigitsValue(u, 0))

\* a <= b and a == b on numbers: false as soon as one side is NaN.
JsLeq(a, b) == ~a.nan /\ ~b.nan /\ a.v <= b.v
JsEq(a, b) == ~a.nan /\ ~b.nan /\ a.v = b.v

----------------------------------------------------------------------------
(* Changelist *)

\* The category constants attached to Changelist.
NONE == "none"
STALE == "stale"
NO_REVIEWERS == "no_reviewers"
WIP == "work_in_progress"
INCOMING_NEEDS_ATTENTION == "incoming_needs_attention"
OUTGOING_NEEDS_ATTENTION == "outgoign_needs_attention"
READY_TO_SUBMIT == "ready_to_submit"
Categories == {NONE, STALE, NO_REVIEWERS, WIP, INCOMING_NEEDS_ATTENTION,
               OUTGOING_NEEDS_ATTENTION, READY_TO_SUBMIT}

\* Outcome of a call that ends in an uncaught TypeError.
TypeError == "TypeError"

\* 1000 * 3600 * 24
DayInMilliseconds == 86400000

\* Absent label in json_.labels; a revision id that json_.revisions lacks
\* looks up as `undefined`.
NoLabel == [absent |-> TRUE]
UndefinedRevision == [undefined |-> TRUE]

\* new Changelist(host, json)
Changelist_new(json) ==
    [json_ |-> json, reviewers_ |-> Null, messages_ |-> Null,
     current_revision_ |-> Null]

isOwner(c, u) == c.json_.owner._account_id = u._account_id
isSubmittable(c) == c.json_.submittable
hasUnresolvedComments(c) == c.json_.unresolved_comment_count # 0
isWorkInProgress(c) == c.json_.work_in_progress = TRUE

\* `(codeReviewLabel && codeReviewLabel.all) || []`
codeReviewAll(c) ==
    IF c.json_.labels.Code_Review = NoLabel \/ c.json_.labels.Code_Review.all = Null
    THEN <<>> ELSE c.json_.labels.Code_Review.all.val
codeReviewEntries(c) == {codeReviewAll(c)[i] : i \in 1..Len(codeReviewAll(c))}

\* Changelist.filterReviewers: the entries of the Code-Review label that
\* carry an account id (an absent id is modelled as 0) and pass the filter,
\* a function from entries to booleans.
filterReviewers(c, filter) ==
    SelectSeq(codeReviewAll(c),
              LAMBDA reviewer : reviewer._account_id # 0 /\ filter[reviewer])

hasReviewed(c, u) ==
    Len(filterReviewers(c,
            [reviewer \in codeReviewEntries(c) |->
                reviewer.value > 0 /\ reviewer._account_id = u._account_id])) # 0

\* getReviewers that forgets to leave the owner out.
getReviewers_withOwner(c) ==
    IF c.reviewers_ = Null
    THEN filterReviewers(c, [reviewer \in codeReviewEntries(c) |-> TRUE])
    ELSE c.reviewers_.val

\* Changelist.getReviewers: memoized in reviewers_.
getReviewers(c) ==
    IF c.reviewers_ = Null
    THEN filterReviewers(c,
            [reviewer \in codeReviewEntries(c) |->
                reviewer._account_id # c.json_.owner._account_id])
    ELSE c.reviewers_.val

\* Changelist.getMessages: memoized in messages_.
getMessages(c) ==
    IF c.messages_ = Null
    THEN [i \in 1..Len(c.json_.messages) |-> Message_wrap(c.json_.messages[i])]
    ELSE c.messages_.val

\* Changelist.getStars
getStars(c) == IF c.json_.stars = Null THEN <<>> ELSE c.json_.stars.val

\* getCurrentRevision that substitutes a default revision for a missing one.
getCurrentRevision_default(c) ==
    IF c.current_revision_ = Null
    THEN [json_ |-> IF c.json_.current_revision \in DOMAIN c.json_.revisions
                    THEN c.json_.revisions[c.json_.current_revision]
                    ELSE [_number |-> 0]]
    ELSE c.current_revision_.val

\* Changelist.getCurrentRevision: memoized in current_revision_; the Revision
\* wraps json_.revisions[json_.current_revision], which is undefined when the
\* id is not a key of the map.
getCurrentRevision(c) ==
    IF c.current_revision_ = Null
    THEN [json_ |-> IF c.json_.current_revision \in DOMAIN c.json_.revisions
                    THEN c.json_.revisions[c.json_.current_revision]
                    ELSE UndefinedRevision]
    ELSE c.current_revision_.val

\* Revision.getNumber throws a TypeError on a Revision that wraps undefined.
getNumberThrows(r) == r.json_ = UndefinedRevision
getNumber(r) == Num(r.json_._number)

\* Changelist.isStale
isStale(c, clock) ==
    LET allMessages == getMessages(c)
        filteredMessages ==
            SelectSeq(allMessages, LAMBDA message : ~shouldBeIgnored(message))
    IN  IF filteredMessages # <<>>
        THEN clock - getTime(filteredMessages[Len(filteredMessages)])
                > DayInMilliseconds
        ELSE IF allMessages # <<>>
        THEN clock - getTime(allMessages[Len(allMessages)]) > DayInMilliseconds
        ELSE TRUE

\* Changelist.authorCommentedAfterUser
authorCommentedAfterUser(c, u) ==
    LET owner == c.json_.owner
        filteredMessages ==
            SelectSeq(getMessages(c), LAMBDA message :
                IF shouldBeIgnored(message) THEN FALSE
                ELSE isAuthoredBy(message, u) \/ isAuthoredBy(message, owner))
    IN  \/ filteredMessages = <<>>
        \/ isAuthoredBy(filteredMessages[Len(filteredMessages)], owner)

\* The loop of getCategory over the star labels: keeps the revision number
\* and kind of the 'reviewed/<n>' or 'unreviewed/<n>' label that passes the
\* `tagged_rev_number <= latest_tagged_rev_number` test last.
RECURSIVE scanStars(_, _, _)
scanStars(stars, latest_tagged_rev_number, latest_tag_is_reviewed) ==
    IF stars = <<>>
    THEN [latest_tagged_rev_number |-> latest_tagged_rev_number,
          latest_tag_is_reviewed |-> latest_tag_is_reviewed]
    ELSE LET parts == split(Head(stars), "/")
             skip == scanStars(Tail(stars), latest_tagged_rev_number,
                               latest_tag_is_reviewed)
         IN  IF Len(parts) # 2 THEN skip
             ELSE IF parts[1] # S_reviewed /\ parts[1] # S_unreviewed THEN skip
             ELSE IF JsLeq(parseInt(parts[2]), latest_tagged_rev_number) THEN skip
             ELSE scanStars(Tail(stars), parseInt(parts[2]),
                            Some(parts[1] = S_reviewed))

\* ownerCategory with the work-in-progress test moved before the submit test.
ownerCategory_wipFirst(c, clock) ==
    IF isWorkInProgress(c)
    THEN [ret |-> WIP, obj |-> c]
    ELSE IF isSubmittable(c) /\ ~hasUnresolvedComments(c)
    THEN [ret |-> READY_TO_SUBMIT, obj |-> c]
    ELSE LET c1 == [c EXCEPT !.reviewers_ = Some(getReviewers(c))]
             c2 == [c1 EXCEPT !.messages_ = Some(getMessages(c))]
         IN  IF Len(getReviewers(c)) = 0
             THEN [ret |-> NO_REVIEWERS, obj |-> c1]
             ELSE IF hasUnresolvedComments(c)
             THEN [ret |-> OUTGOING_NEEDS_ATTENTION, obj |-> c1]
             ELSE IF isStale(c, clock)
             THEN [ret |-> STALE, obj |-> c2]
             ELSE [ret |-> NONE, obj |-> c2]

\* The owner's branch of getCategory (lines 170-185): the category and the
\* memoized fields the branch fills on its way.
ownerCategory(c, clock) ==
    IF isSubmittable(c) /\ ~hasUnresolvedComments(c)
    THEN [ret |-> READY_TO_SUBMIT, obj |-> c]
    ELSE IF isWorkInProgress(c)
    THEN [ret |-> WIP, obj |-> c]
    ELSE LET c1 == [c EXCEPT !.reviewers_ = Some(getReviewers(c))]
             c2 == [c1 EXCEPT !.messages_ = Some(getMessages(c))]
         IN  IF Len(getReviewers(c)) = 0
             THEN [ret |-> NO_REVIEWERS, obj |-> c1]
             ELSE IF hasUnresolvedComments(c)
             THEN [ret |-> OUTGOING_NEEDS_ATTENTION, obj |-> c1]
             ELSE IF isStale(c, clock)
             THEN [ret |-> STALE, obj |-> c2]
             ELSE [ret |-> NONE, obj |-> c2]

\* The branch of getCategory for a user who is not the owner and has not
\* reviewed (lines 189-220).
incomingCategory(c, u) ==
    LET c1 == [c EXCEPT !.current_revision_ = Some(getCurrentRevision(c))]
        c2 == [c1 EXCEPT !.messages_ = Some(getMessages(c))]
        current_rev_number == getNumber(getCurrentRevision(c))
        latest == scanStars(getStars(c), Num(-1), Null)
    IN  IF getNumberThrows(getCurrentRevision(c))
        THEN [ret |-> TypeError, obj |-> c1]
        ELSE IF JsEq(latest.latest_tagged_rev_number, current_rev_number)
        THEN IF latest.latest_tag_is_reviewed = Some(TRUE)
             THEN [ret |-> NONE, obj |-> c1]
             ELSE [ret |-> INCOMING_NEEDS_ATTENTION, obj |-> c1]
        ELSE IF authorCommentedAfterUser(c, u)
        THEN [ret |-> INCOMING_NEEDS_ATTENTION, obj |-> c2]
        ELSE [ret |-> NONE, obj |-> c2]

\* getCategory that consults the star labels and messages of every user who
\* is not the owner, whether the user has reviewed or not.
getCategory_ignoresVotes(c, u, clock) ==
    IF isOwner(c, u) THEN ownerCategory(c, clock)
    ELSE incomingCategory(c, u)

\* Changelist.getCategory(user): ret is the category returned (or TypeError),
\* obj the Changelist object after the call.
getCategory(c, u, clock) ==
    IF isOwner(c, u) THEN ownerCategory(c, clock)
    ELSE IF ~hasReviewed(c, u) THEN incomingCategory(c, u)
    ELSE [ret |-> NONE, obj |-> c]

----------------------------------------------------------------------------
(* Description *)

AsciiLetters ==
    {"a","b","c","d","e","f","g","h","i","j","k","l","m",
     "n","o","p","q","r","s","t","u","v","w","x","y","z",
     "A","B","C","D","E","F","G","H","I","J","K","L","M",
     "N","O","P","Q","R","S","T","U","V","W","X","Y","Z"}

\* The character classes of ATTRIBUTE_RE = /^\s*([-A-Za-z]+)[=:](.*)$/ :
\* \s, [-A-Za-z], [=:], and `.` (anything but a line terminator).
ReSpace(ch) == ch \in {" ", "\t", "\r", "\n"}
ReKeyChar(ch) == ch = "-" \/ ch \in AsciiLetters
ReSeparator(ch) == ch \in {"=", ":"}
ReDot(ch) == ch \notin {"\n", "\r"}

\* Length of the longest prefix of TRUE of a sequence of booleans: how far
\* a greedy run of a character class extends.
RunLength(inClass) ==
    CHOOSE n \in 0..Len(inClass) :
        /\ \A i \in 1..n : inClass[i]
        /\ n = Len(inClass) \/ ~inClass[n + 1]

Drop(s, n) == SubSeq(s, n + 1, Len(s))

\* ATTRIBUTE_RE.exec(line): NoMatch, or the two captured groups.  The three
\* leading classes are pairwise disjoint, so the greedy runs are the only
\* way to match; the value must reach the end of the line.
NoMatch == [matched |-> FALSE]
ATTRIBUTE_RE_exec(line) ==
    LET afterSpace ==
            Drop(line, RunLength([i \in 1..Len(line) |-> ReSpace(line[i])]))
        keyLen ==
            RunLength([i \in 1..Len(afterSpace) |-> ReKeyChar(afterSpace[i])])
        afterKey == Drop(afterSpace, keyLen)
        value == IF afterKey = <<>> THEN <<>> ELSE Tail(afterKey)
    IN  IF keyLen = 0 \/ afterKey = <<>> \/ ~ReSeparator(Head(afterKey))
        THEN NoMatch
        ELSE IF RunLength([i \in 1..Len(value) |-> ReDot(value[i])]) # Len(value)
        THEN NoMatch
        ELSE [matched |-> TRUE, key |-> SubSeq(afterSpace, 1, keyLen),
              value |-> value]

\* Array.prototype.join('\n')
RECURSIVE join(_, _)
join(lines, sep) ==
    IF lines = <<>> THEN <<>>
    ELSE IF Len(lines) = 1 THEN lines[1]
    ELSE lines[1] \o <<sep>> \o join(Tail(lines), sep)

\* Array.prototype.reverse
reverse(seq) == [i \in 1..Len(seq) |-> seq[Len(seq) + 1 - i]]

\* `while (cutoff >= 1 && lines[cutoff] === '') cutoff--;` with the 0-based
\* cutoff of the source: lines[cutoff] is lines[cutoff + 1] here.
RECURSIVE peelEmptyLines(_, _)
peelEmptyLines(lines, cutoff) ==
    IF cutoff >= 1 /\ lines[cutoff + 1] = <<>>
    THEN peelEmptyLines(lines, cutoff - 1)
    ELSE cutoff

\* The loop that peels off the attributes (lines 377-386).
RECURSIVE peelAttributes(_, _, _)
peelAttributes(lines, cutoff, attributes) ==
    IF cutoff < 1 THEN [cutoff |-> cutoff, attributes |-> attributes]
    ELSE IF lines[cutoff + 1] = <<>>
    THEN peelAttributes(lines, cutoff - 1, attributes)
    ELSE LET match == ATTRIBUTE_RE_exec(lines[cutoff + 1])
         IN  IF ~match.matched
             THEN [cutoff |-> cutoff, attributes |-> attributes]
             ELSE peelAttributes(lines, cutoff - 1,
                                 Append(attributes, <<match.key, match.value>>))

\* parse that returns the attributes in the order they were peeled.
parse_keepsPeelOrder(text) ==
    LET lines == split(text, "\n")
        peeled == peelAttributes(lines, peelEmptyLines(lines, Len(lines) - 1), <<>>)
        cutoff == peelEmptyLines(lines, peeled.cutoff)
    IN  [message |-> join(SubSeq(lines, 1, cutoff + 1), "\n"),
         attributes |-> peeled.attributes]

\* Description.parse(text): [message, attributes].
parse(text) ==
    LET lines == split(text, "\n")
        peeled == peelAttributes(lines, peelEmptyLines(lines, Len(lines) - 1), <<>>)
        cutoff == peelEmptyLines(lines, peeled.cutoff)
    IN  [message |-> join(SubSeq(lines, 1, cutoff + 1), "\n"),
         attributes |-> reverse(peeled.attributes)]

----------------------------------------------------------------------------
(* utils.Map, as used by the two getCategoryMap: a key -> value map *)

Map_new == [k \in {} |-> <<>>]
Map_has(m, key) == key \in DOMAIN m
Map_get(m, key) == m[key]
Map_put(m, key, value) ==
    [k \in DOMAIN m \cup {key} |-> IF k = key THEN value ELSE m[k]]
Map_keys(m) == DOMAIN m

----------------------------------------------------------------------------
(* SearchResult and SearchResults *)

\* A SearchResult is [user_, data_]; data_ holds references to Changelist
\* objects (object identity), dereferenced through a heap.

\* includes that never finds the object.
includes_never(cls, ref) == FALSE

\* Array.prototype.includes on an array of object references.
includes(cls, ref) == \E i \in 1..Len(cls) : cls[i] = ref

\* The body of the forEach of SearchResult.getCategoryMap, over data_ from
\* left to right.
RECURSIVE groupByCategory(_, _, _, _, _)
groupByCategory(heap, data, u, clock, result) ==
    IF data = <<>> THEN result
    ELSE LET attention == getCategory(heap[Head(data)], u, clock).ret
             created == IF ~Map_has(result, attention)
                        THEN Map_put(result, attention, <<>>) ELSE result
             cls == Map_get(created, attention)
             pushed == IF ~includes(cls, Head(data))
                       THEN Map_put(created, attention, Append(cls, Head(data)))
                       ELSE created
         IN  groupByCategory(heap, Tail(data), u, clock, pushed)

\* SearchResult.getCategoryMap
SearchResult_getCategoryMap(heap, sr, clock) ==
    groupByCategory(heap, sr.data_, sr.user_, clock, Map_new)

\* The inner forEach of SearchResults.getCategoryMap: every (attention, cls)
\* of one query's map is appended to categories.
RECURSIVE concatInto(_, _, _)
concatInto(acc, m, keys) ==
    IF keys = {} THEN acc
    ELSE LET attention == CHOOSE k \in keys : TRUE
             created == IF ~Map_has(acc, attention)
                        THEN Map_put(acc, attention, <<>>) ELSE acc
         IN  concatInto(
                 Map_put(created, attention,
                         Map_get(created, attention) \o Map_get(m, attention)),
                 m, keys \ {attention})

\* The outer forEach of SearchResults.getCategoryMap, over results_.
RECURSIVE mergeResults(_, _, _, _)
mergeResults(heap, results, clock, acc) ==
    IF results = <<>> THEN acc
    ELSE LET m == SearchResult_getCategoryMap(heap, Head(results), clock)
         IN  mergeResults(heap, Tail(results), clock,
                          concatInto(acc, m, Map_keys(m)))

\* SearchResults.getCategoryMap
SearchResults_getCategoryMap(heap, results, clock) ==
    mergeResults(heap, results, clock, Map_new)

----------------------------------------------------------------------------
(* Inputs *)

MaxMessages == 2     \* messages of a changelist
MaxStars == 3        \* star labels of a changelist
MaxUnresolved == 1   \* unresolved_comment_count
MaxTicks == 2        \* clock ticks after the first reading
MaxLines == 4        \* lines of a commit message
MaxData == 2         \* changelists of one query
MaxQueries == 2      \* queries of a SearchResults

Owner == [_account_id |-> 1]
Reviewer == [_account_id |-> 2]
Other == [_account_id |-> 3]
Users == {Owner, Reviewer}
NoUser == [_account_id |-> 0]

\* Tags of Message JSON.
Tags == {Undefined, S_newPatchSet, S_newWipPatchSet, S_merged,
         S_autogenerated, S_newPatchSetX, S_autoNoColon, S_upperAuto,
         S_mailtag, S_prefixed}

\* Dates around the staleness limit: the clock starts at
\* DayInMilliseconds + 1, so ms = 1 is exactly 24h old at the first reading.
Dates == [ms : {0, 1, 2}, half : {0, 1}]
FirstReading == DayInMilliseconds + 1

\* A message as the server sends it: `tag` is optional, and there is no
\* field `tag_`, which therefore reads as undefined.
MessageJson(tag, author, date) ==
    [tag |-> tag, tag_ |-> Undefined, real_author |-> author, date |-> date]

DateLeq(d, e) == d.ms < e.ms \/ (d.ms = e.ms /\ d.half <= e.half)
Chronological(messages) ==
    \A i, j \in 1..Len(messages) :
        i < j => DateLeq(messages[i].date, messages[j].date)

Vote(account, value) == [_account_id |-> account._account_id, value |-> value]
Label(all) == [all |-> Some(all)]
LabelWithoutAll == [all |-> Null]

Revisions == [id \in {"a1", "b2"} |-> [_number |-> IF id = "a1" THEN 1 ELSE 2]]

BaseJson ==
    [owner |-> Owner, submittable |-> FALSE, unresolved_comment_count |-> 0,
     work_in_progress |-> FALSE, labels |-> [Code_Review |-> NoLabel],
     messages |-> <<>>, stars |-> Null, revisions |-> Revisions,
     current_revision |-> "b2"]

Star(kind, suffix) == kind \o <<"/">> \o suffix
StarLabels ==
    {Star(S_reviewed, <<"1">>), Star(S_unreviewed, <<"1">>),
     Star(S_reviewed, <<"2">>), Star(S_unreviewed, <<"2">>),
     Star(S_reviewed, <<"x">>), <<"i","g","n","o","r","e">>}

Nothing == "nothing"

\* The parts of the state a specification does not use.
IdleMessage ==
    /\ msg = Message_wrap(MessageJson(Undefined, Owner, [ms |-> 0, half |-> 0]))
    /\ ignored = FALSE
IdleChangelist ==
    /\ cl = Changelist_new(BaseJson) /\ now = FirstReading
    /\ user = NoUser /\ category = Nothing /\ stale = FALSE
IdleDescription == text_ = <<>> /\ parsed = Null
IdleSearch == results_ = <<>> /\ categories = Null

----------------------------------------------------------------------------
(* Message.shouldBeIgnored on every tag *)

InitMessage ==
    /\ op = "new"
    /\ \E tag \in Tags, author \in {Owner, Reviewer, Other}, date \in Dates :
           msg = Message_wrap(MessageJson(tag, author, date))
    /\ ignored = FALSE
    /\ IdleChangelist /\ IdleDescription /\ IdleSearch

ShouldBeIgnored ==
    /\ op' = "shouldBeIgnored"
    /\ ignored' = shouldBeIgnored(msg)
    /\ UNCHANGED <<msg, cl, now, user, category, stale, text_, parsed,
                   results_, categories>>

NextMessage == ShouldBeIgnored
SpecMessage == InitMessage /\ [][NextMessage]_vars

----------------------------------------------------------------------------
(* Changelist operations *)

GetCategory(u) ==
    /\ op' = "getCategory"
    /\ user' = u
    /\ category' = getCategory(cl, u, now).ret
    /\ cl' = getCategory(cl, u, now).obj
    /\ UNCHANGED <<msg, ignored, now, stale, text_, parsed, results_, categories>>

IsStale ==
    /\ op' = "isStale"
    /\ stale' = isStale(cl, now)
    /\ cl' = [cl EXCEPT !.messages_ = Some(getMessages(cl))]
    /\ UNCHANGED <<msg, ignored, now, user, category, text_, parsed,
                   results_, categories>>

\* Time passes between two calls.
Tick ==
    /\ now < FirstReading + MaxTicks - 1
    /\ now' = now + 1
    /\ op' = "tick"
    /\ UNCHANGED <<msg, ignored, cl, user, category, stale, text_, parsed,
                   results_, categories>>

\* Changelists as their owner sees them.
OutgoingLabels ==
    {NoLabel, LabelWithoutAll, Label(<<>>), Label(<<Vote(Owner, 2)>>),
     Label(<<Vote(NoUser, 1)>>), Label(<<Vote(Reviewer, 1)>>),
     Label(<<Vote(Owner, 1), Vote(Other, -1)>>)}
OutgoingMessages ==
    {m \in SeqsUpTo({MessageJson(t, Other, d) :
                        t \in {Undefined, S_merged},
                        d \in {[ms |-> 0, half |-> 0], [ms |-> 2, half |-> 0]}},
                    MaxMessages) : Chronological(m)}

InitOutgoing ==
    /\ op = "new"
    /\ \E submittable \in BOOLEAN, unresolved \in 0..MaxUnresolved,
          wip \in BOOLEAN, label \in OutgoingLabels, messages \in OutgoingMessages :
           cl = Changelist_new(
                    [BaseJson EXCEPT !.submittable = submittable,
                                     !.unresolved_comment_count = unresolved,
                                     !.work_in_progress = wip,
                                     !.labels = [Code_Review |-> label],
                                     !.messages = messages])
    /\ now = FirstReading
    /\ user = NoUser /\ category = Nothing /\ stale = FALSE
    /\ IdleMessage /\ IdleDescription /\ IdleSearch

\* Changelists with every mix of tagged and untagged messages around the
\* staleness limit.
StaleMessages ==
    {m \in SeqsUpTo({MessageJson(t, Other, d) :
                        t \in {Undefined, S_merged, S_newPatchSet}, d \in Dates},
                    MaxMessages) : Chronological(m)}

InitStale ==
    /\ op = "new"
    /\ \E messages \in StaleMessages :
           cl = Changelist_new([BaseJson EXCEPT !.messages = messages,
                                                !.labels = [Code_Review |-> Label(<<Vote(Reviewer, 1)>>)]])
    /\ now = FirstReading
    /\ user = NoUser /\ category = Nothing /\ stale = FALSE
    /\ IdleMessage /\ IdleDescription /\ IdleSearch

InitOwned == InitOutgoing \/ InitStale
NextOutgoing == (\E u \in Users : GetCategory(u)) \/ IsStale \/ Tick
SpecOutgoing == InitOwned /\ [][NextOutgoing]_vars

\* Changelists as a reviewer sees them: star labels, votes, revisions.
IncomingLabels ==
    {Label(<<>>), Label(<<Vote(Reviewer, 1)>>), Label(<<Vote(Reviewer, -1)>>),
     Label(<<Vote(Other, 2), Vote(Reviewer, 2)>>)}
FewMessages ==
    {<<>>,
     <<MessageJson(Undefined, Owner, [ms |-> 0, half |-> 0])>>,
     <<MessageJson(Undefined, Owner, [ms |-> 0, half |-> 0]),
       MessageJson(Undefined, Reviewer, [ms |-> 1, half |-> 0])>>}

InitStars ==
    /\ op = "new"
    /\ \E stars \in {Null} \cup {Some(l) : l \in SeqsUpTo(StarLabels, MaxStars)},
          current \in {"a1", "b2", "c3"}, label \in IncomingLabels,
          messages \in FewMessages :
           cl = Changelist_new(
                    [BaseJson EXCEPT !.stars = stars,
                                     !.current_revision = current,
                                     !.labels = [Code_Review |-> label],
                                     !.messages = messages])
    /\ now = FirstReading
    /\ user = NoUser /\ category = Nothing /\ stale = FALSE
    /\ IdleMessage /\ IdleDescription /\ IdleSearch

\* Changelists with every mix of authors and tags in their messages.
FewStars ==
    {Null, Some(<<Star(S_reviewed, <<"1">>)>>),
     Some(<<Star(S_unreviewed, <<"1">>), <<"i","g","n","o","r","e">>>>),
     Some(<<Star(S_reviewed, <<"2">>), Star(S_reviewed, <<"x">>),
            Star(S_unreviewed, <<"1">>)>>)}
HeuristicMessages ==
    SeqsUpTo({MessageJson(t, a, [ms |-> 0, half |-> 0]) :
                 t \in {Undefined, S_merged, S_newPatchSet},
                 a \in {Owner, Reviewer, Other}},
             MaxMessages)

InitHeuristic ==
    /\ op = "new"
    /\ \E stars \in FewStars, current \in {"a1", "b2"},
          label \in {Label(<<>>), Label(<<Vote(Reviewer, -1)>>)},
          messages \in HeuristicMessages :
           cl = Changelist_new(
                    [BaseJson EXCEPT !.stars = stars,
                                     !.current_revision = current,
                                     !.labels = [Code_Review |-> label],
                                     !.messages = messages])
    /\ now = FirstReading
    /\ user = NoUser /\ category = Nothing /\ stale = FALSE
    /\ IdleMessage /\ IdleDescription /\ IdleSearch

NextIncoming == \E u \in Users : GetCategory(u)
InitReviewed == InitStars \/ InitHeuristic
SpecIncoming == InitReviewed /\ [][NextIncoming]_vars

----------------------------------------------------------------------------
(* Description.parse on commit messages *)

\* Lines a commit message is made of: blank, attribute lines, text, and
\* near misses of the attribute pattern.
Lines ==
    {<<>>,
     <<"a", ":", "b">>,
     <<" ", "B", "=">>,
     <<"a", "-", "b", ":", "c", "=", "d">>,
     <<"f", "i", "x", " ", "i", "t">>,
     <<":", "a">>,
     <<" ">>,
     <<"a", "1", ":", "b">>,
     <<"a", ":", "b", "\r">>}

InitDescription ==
    /\ op = "new"
    /\ \E k \in 1..MaxLines : \E lines \in [1..k -> Lines] :
           text_ = join(lines, "\n")
    /\ parsed = Null
    /\ IdleMessage /\ IdleChangelist /\ IdleSearch

\* Description.ensureParsed on a fresh Description.
Parse ==
    /\ op' = "parse"
    /\ parsed' = parse(text_)
    /\ UNCHANGED <<msg, ignored, cl, now, user, category, stale, text_,
                   results_, categories>>

NextDescription == Parse
SpecDescription == InitDescription /\ [][NextDescription]_vars

----------------------------------------------------------------------------
(* getCategoryMap on search results *)

\* The Changelist objects the queries refer to, one owned by each user; both
\* carry their current revision.
Heap ==
    <<Changelist_new(BaseJson),
      Changelist_new([BaseJson EXCEPT !.owner = Reviewer, !.submittable = TRUE])>>

SearchResultObjects ==
    [user_ : Users, data_ : SeqsUpTo(DOMAIN Heap, MaxData)]

InitSearch ==
    /\ op = "new"
    /\ results_ \in SeqsUpTo(SearchResultObjects, MaxQueries)
    /\ categories = Null
    /\ IdleMessage /\ IdleChangelist /\ IdleDescription

GetCategoryMap ==
    /\ op' = "getCategoryMap"
    /\ categories' = Some(SearchResults_getCategoryMap(Heap, results_, now))
    /\ UNCHANGED <<msg, ignored, cl, now, user, category, stale, text_, parsed,
                   results_>>

NextSearch == GetCategoryMap
SpecSearch == InitSearch /\ [][NextSearch]_vars

----------------------------------------------------------------------------
(* Vocabulary of the properties, stated on the JSON data *)

\* A tag that makes a message ignorable: present, starting with
\* "autogenerated:", and none of the two patch-set tags.
IgnorableTag(tag) ==
    /\ tag # Undefined
    /\ Len(tag) >= Len(S_autogenerated)
    /\ \A i \in 1..Len(S_autogenerated) : tag[i] = S_autogenerated[i]
    /\ tag # S_newPatchSet
    /\ tag # S_newWipPatchSet

\* Indices of the accounts of the Code-Review label that count as reviewers:
\* they carry an id and are not the owner.
ReviewerIndices(json) ==
    IF json.labels.Code_Review = NoLabel \/ json.labels.Code_Review.all = Null
    THEN {}
    ELSE {i \in 1..Len(json.labels.Code_Review.all.val) :
            /\ json.labels.Code_Review.all.val[i]._account_id # 0
            /\ json.labels.Code_Review.all.val[i]._account_id
                  # json.owner._account_id}

CalledAsOwner ==
    op = "getCategory" /\ user._account_id = cl.json_.owner._account_id

----------------------------------------------------------------------------
(* Properties *)

\* C6: shouldBeIgnored() is true iff the message's `tag` attribute is
\* present, starts with "autogenerated:" and is neither of the two patch-set
\* tags.
C6_IgnoredIffAutogeneratedTag ==
    op = "shouldBeIgnored" => (ignored <=> IgnorableTag(msg.json_.tag))

\* C1: for the owner, getCategory returns the first matching rule of
\* READY_TO_SUBMIT, WORK_IN_PROGRESS, NO_REVIEWERS, OUTGOING_NEEDS_ATTENTION,
\* STALE, NONE.
C1_OwnerDecisionOrder ==
    CalledAsOwner =>
        category =
            IF cl.json_.submittable /\ cl.json_.unresolved_comment_count = 0
            THEN READY_TO_SUBMIT
            ELSE IF cl.json_.work_in_progress THEN WIP
            ELSE IF ReviewerIndices(cl.json_) = {} THEN NO_REVIEWERS
            ELSE IF cl.json_.unresolved_comment_count # 0
            THEN OUTGOING_NEEDS_ATTENTION
            ELSE IF isStale(cl, now) THEN STALE
            ELSE NONE

\* C1 happens: a submittable work-in-progress changelist without unresolved
\* comments was categorized for its owner.
C1_Witness ==
    /\ CalledAsOwner
    /\ cl.json_.submittable /\ cl.json_.work_in_progress
    /\ cl.json_.unresolved_comment_count = 0
    /\ category = READY_TO_SUBMIT

\* C10 as stated: for the owner, an empty reviewer list and no
\* work-in-progress flag give NO_REVIEWERS for every value of submittable
\* and of the unresolved comment count.
C10_NoReviewersAlways ==
    (CalledAsOwner /\ ReviewerIndices(cl.json_) = {} /\ ~cl.json_.work_in_progress)
        => category = NO_REVIEWERS

\* C10 amended: for the owner, an empty reviewer list and no
\* work-in-progress flag give NO_REVIEWERS unless the changelist is
\* submittable with no unresolved comments, which gives READY_TO_SUBMIT.
C10_NoReviewersUnlessReady ==
    (CalledAsOwner /\ ReviewerIndices(cl.json_) = {} /\ ~cl.json_.work_in_progress)
        => category =
              IF cl.json_.submittable /\ cl.json_.unresolved_comment_count = 0
              THEN READY_TO_SUBMIT ELSE NO_REVIEWERS

\* C10 happens: a submittable changelist with unresolved comments, whose only
\* Code-Review vote is the owner's, was categorized NO_REVIEWERS.
C10_Witness ==
    /\ CalledAsOwner
    /\ cl.json_.labels.Code_Review = Label(<<Vote(Owner, 2)>>)
    /\ cl.json_.submittable /\ cl.json_.unresolved_comment_count # 0
    /\ ~cl.json_.work_in_progress
    /\ category = NO_REVIEWERS

\* C5 vocabulary: the message staleness is decided on (the last message whose
\* tag is not ignorable, else the last message), and twice the time elapsed
\* since its timestamp, in milliseconds.
DecidingMessage(messages) ==
    LET kept == {i \in 1..Len(messages) : ~IgnorableTag(messages[i].tag)}
    IN  IF kept # {}
        THEN messages[CHOOSE i \in kept : \A j \in kept : j <= i]
        ELSE messages[Len(messages)]
TwiceElapsed(message, clock) == 2 * clock - (2 * message.date.ms + message.date.half)

\* C5: isStale is true iff there is no message, or more than 86,400,000 ms
\* have passed since the last non-ignorable message (the last message when
\* all are ignorable).
C5_StaleIffLastActivityOld ==
    op = "isStale" =>
        (stale <=>
            \/ cl.json_.messages = <<>>
            \/ TwiceElapsed(DecidingMessage(cl.json_.messages), now)
                  > 2 * DayInMilliseconds)

\* Star markers: the labels 'reviewed/<n>' and 'unreviewed/<n>', n a
\* revision number (one digit within the bounds of the model).
StarsOf(json) == IF json.stars = Null THEN <<>> ELSE json.stars.val
Markers(json) ==
    {mk \in [reviewed : BOOLEAN, n : 0..9] :
        \E i \in 1..Len(StarsOf(json)) :
            StarsOf(json)[i] =
                (IF mk.reviewed THEN S_reviewed ELSE S_unreviewed)
                    \o <<"/", DecimalDigits[mk.n + 1]>>}
TopMarkers(json) ==
    {mk \in Markers(json) : \A other \in Markers(json) : other.n <= mk.n}
HasCurrentRevision(json) == json.current_revision \in DOMAIN json.revisions
CurrentNumber(json) == json.revisions[json.current_revision]._number
TopMarkerIsCurrent(json) ==
    /\ HasCurrentRevision(json)
    /\ \E mk \in TopMarkers(json) : mk.n = CurrentNumber(json)

HasPositiveVote(json, u) ==
    /\ json.labels.Code_Review # NoLabel
    /\ json.labels.Code_Review.all # Null
    /\ \E i \in 1..Len(json.labels.Code_Review.all.val) :
          /\ json.labels.Code_Review.all.val[i]._account_id = u._account_id
          /\ json.labels.Code_Review.all.val[i].value > 0

CalledAsReviewer ==
    op = "getCategory" /\ user._account_id # cl.json_.owner._account_id

\* C2 as stated: a user who is not the owner and has reviewed gets NONE,
\* except INCOMING_NEEDS_ATTENTION when the highest star marker is an
\* 'unreviewed' marker of the current revision.
C2_ReviewedNoneUnlessStarred ==
    (CalledAsReviewer /\ HasPositiveVote(cl.json_, user)) =>
        category =
            IF /\ TopMarkerIsCurrent(cl.json_)
               /\ \A mk \in TopMarkers(cl.json_) : ~mk.reviewed
            THEN INCOMING_NEEDS_ATTENTION
            ELSE NONE

\* C2 amended: a user who is not the owner and has reviewed gets NONE,
\* whatever the star markers are.
C2_ReviewedAlwaysNone ==
    (CalledAsReviewer /\ HasPositiveVote(cl.json_, user)) => category = NONE

\* C2 happens: a user who has reviewed, on a changelist whose highest star
\* marker is 'unreviewed' for the current revision, got NONE.
C2_Witness ==
    /\ CalledAsReviewer /\ HasPositiveVote(cl.json_, user)
    /\ TopMarkerIsCurrent(cl.json_)
    /\ \A mk \in TopMarkers(cl.json_) : ~mk.reviewed
    /\ category = NONE

\* C3: for a user who is not the owner and has not reviewed, when the marker
\* with the highest n is of the current revision the result is NONE for a
\* 'reviewed' marker and INCOMING_NEEDS_ATTENTION for an 'unreviewed' one,
\* whatever the order of the stars, the other labels and the messages.
\* (When markers of both kinds carry the highest n, neither result is
\* required.)
C3_HighestMarkerDecides ==
    (/\ CalledAsReviewer /\ ~HasPositiveVote(cl.json_, user)
     /\ TopMarkerIsCurrent(cl.json_)) =>
        /\ (\A mk \in TopMarkers(cl.json_) : mk.reviewed) => category = NONE
        /\ (\A mk \in TopMarkers(cl.json_) : ~mk.reviewed)
              => category = INCOMING_NEEDS_ATTENTION

\* C4 vocabulary: the messages whose tag is not ignorable and whose author
\* is the user or the owner.
CountedMessages(json, u) ==
    {i \in 1..Len(json.messages) :
        /\ ~IgnorableTag(json.messages[i].tag)
        /\ json.messages[i].real_author._account_id
              \in {u._account_id, json.owner._account_id}}
OwnerSpokeLast(json, u) ==
    \A i \in CountedMessages(json, u) :
        (\A j \in CountedMessages(json, u) : j <= i)
            => json.messages[i].real_author._account_id = json.owner._account_id

\* C4: for a user who is not the owner and has not reviewed, when no star
\* marker exists or the highest one is not of the current revision, the
\* result is INCOMING_NEEDS_ATTENTION iff the last non-ignorable message of
\* the user or the owner is the owner's, or there is none; else NONE.
C4_FallbackOnMessages ==
    (/\ CalledAsReviewer /\ ~HasPositiveVote(cl.json_, user)
     /\ HasCurrentRevision(cl.json_) /\ ~TopMarkerIsCurrent(cl.json_)) =>
        category =
            IF OwnerSpokeLast(cl.json_, user)
            THEN INCOMING_NEEDS_ATTENTION ELSE NONE

\* C9 as stated: getCategory on a changelist whose current revision is
\* missing from the revision map ends in an error for every user.
C9_MissingRevisionAlwaysFails ==
    (op = "getCategory" /\ ~HasCurrentRevision(cl.json_)) => category = TypeError

\* C9 amended: getCategory on a changelist whose current revision is missing
\* ends in an error exactly for a user who is neither the owner nor has
\* reviewed; the owner and a user who has reviewed get a category.
C9_MissingRevisionFailsForPendingReviewer ==
    (op = "getCategory" /\ ~HasCurrentRevision(cl.json_)) =>
        (category = TypeError
            <=> (/\ user._account_id # cl.json_.owner._account_id
                 /\ ~HasPositiveVote(cl.json_, user)))

\* C9 happens: a call on a changelist without its current revision ended in
\* a TypeError.
C9_Witness ==
    /\ op = "getCategory" /\ ~HasCurrentRevision(cl.json_)
    /\ category = TypeError

\* C7 vocabulary: the lines of the text, the lines that may belong to the
\* trailing attribute block (blank or matching the attribute pattern), and
\* the index at which the maximal trailing block starts, never before the
\* second line.
TextLines == split(text_, "\n")
InBlock(line) == line = <<>> \/ ATTRIBUTE_RE_exec(line).matched
BlockStart(lines) ==
    CHOOSE k \in 2..(Len(lines) + 1) :
        /\ \A i \in k..Len(lines) : InBlock(lines[i])
        /\ k = 2 \/ ~InBlock(lines[k - 1])
NthOf(indices, p) ==
    CHOOSE i \in indices : Cardinality({j \in indices : j <= i}) = p

\* C7: Description.parse returns as attributes the (key, value) pairs of the
\* maximal trailing block of attribute lines, blank lines skipped, the first
\* line never included, in top-to-bottom order; and as body the lines before
\* that block, without the blank lines that separate them from it.
C7_ParseSplitsTrailingAttributes ==
    op = "parse" =>
        LET lines == TextLines
            start == BlockStart(lines)
            attributeLines == {i \in start..Len(lines) : lines[i] # <<>>}
        IN  /\ Len(parsed.attributes) = Cardinality(attributeLines)
            /\ \A p \in 1..Len(parsed.attributes) :
                  LET match == ATTRIBUTE_RE_exec(lines[NthOf(attributeLines, p)])
                  IN  parsed.attributes[p] = <<match.key, match.value>>
            /\ parsed.message = join(SubSeq(lines, 1, start - 1), "\n")

\* C7 happens: a text of four lines, with a blank line between its two
\* attribute lines, was parsed into a one-line body and two attributes.
C7_Witness ==
    /\ op = "parse"
    /\ Len(TextLines) = 4 /\ TextLines[3] = <<>>
    /\ parsed.attributes = << <<<<"a">>, <<"b">>>>, <<<<"B">>, <<>>>> >>
    /\ parsed.message = TextLines[1]

\* C8 vocabulary: the bucket of one query for a category (the objects of
\* that category, each once, in the order they are first seen), and the
\* concatenation of the buckets of a sequence of queries.
CategoryFor(ref, u) == getCategory(Heap[ref], u, now).ret
QueryCategories(sr) ==
    [i \in 1..Len(sr.data_) |-> CategoryFor(sr.data_[i], sr.user_)]
Bucket(sr, cats, c) ==
    LET firstSeen == {i \in 1..Len(sr.data_) :
                        /\ cats[i] = c
                        /\ \A j \in 1..(i - 1) : sr.data_[j] # sr.data_[i]}
    IN  [p \in 1..Cardinality(firstSeen) |->
            sr.data_[CHOOSE i \in firstSeen :
                        Cardinality({j \in firstSeen : j <= i}) = p]]
RECURSIVE Buckets(_, _, _)
Buckets(results, cats, c) ==
    IF results = <<>> THEN <<>>
    ELSE Bucket(Head(results), Head(cats), c)
            \o Buckets(Tail(results), Tail(cats), c)

====
